---- MODULE Spec2Model ----
(***************************************************************************)
(* Model of the business-visit analyzer of immo-tools:                     *)
(*   lib/location/utils.ts            (haversine, parseCoordinateString,   *)
(*                                     findMatchingBusinessLocation)       *)
(*   lib/location/routing.ts          (calculateRoute)                     *)
(*   lib/location/simple-analyzer.ts  (BusinessLocationAnalyzer)           *)
(*                                                                         *)
(* Representation of numbers.  All coordinates of the model lie on one     *)
(* meridian (that of Home) and  a latitude is an integer number of kilometres *)
(* of arc along it, so that the haversine formula (R * c, with c the       *)
(* central angle) reduces to the absolute latitude difference.  Kilometre  *)
(* values are integers; routing distances are metres, multiples of 1000.   *)
(*                                                                         *)
(* Optional values (a field that may be absent, a null result) are         *)
(* sequences of length 0 or 1.                                             *)
(***************************************************************************)
EXTENDS Integers, Sequences, FiniteSets, TLC

\* ------------------------------------------------------------------ bounds
\* longest segment list of one export
MaxSegments == 2
\* number of analyzeTimeline calls made on the instance, one after another
MaxCalls == 2

\* ------------------------------------------------------------- option type
None == <<>>

Some(x) == <<x>>

IsSome(o) == Len(o) = 1

Val(o) == o[1]

Abs(x) == IF x < 0 THEN -x ELSE x

\* The one JavaScript number the model needs that is not an integer: NaN,
\* kept apart from every distance and amount, which are never negative.
NaN == -1

\* a * b of JavaScript numbers
jsMul(a, b) == IF a = NaN \/ b = NaN THEN NaN ELSE a * b

\* ---------------------------------------------------------------- calendar
\* Gregorian leap-year rule of the ECMAScript Date object
IsLeap(y) == (y % 4 = 0 /\ y % 100 # 0) \/ y % 400 = 0

DaysInMonth(y, m) ==
  IF m = 2 THEN (IF IsLeap(y) THEN 29 ELSE 28)
  ELSE IF m \in {4, 6, 9, 11} THEN 30 ELSE 31

PrevDay(dt) ==
  IF dt.d > 1 THEN [y |-> dt.y, m |-> dt.m, d |-> dt.d - 1]
  ELSE IF dt.m > 1 THEN [y |-> dt.y, m |-> dt.m - 1, d |-> DaysInMonth(dt.y, dt.m - 1)]
  ELSE [y |-> dt.y - 1, m |-> 12, d |-> 31]

NextDay(dt) ==
  IF dt.d < DaysInMonth(dt.y, dt.m) THEN [y |-> dt.y, m |-> dt.m, d |-> dt.d + 1]
  ELSE IF dt.m < 12 THEN [y |-> dt.y, m |-> dt.m + 1, d |-> 1]
  ELSE [y |-> dt.y + 1, m |-> 1, d |-> 1]

\* A timestamp string "YYYY-MM-DDTHH:00:00+off:00": wall-clock day and hour
\* at the UTC offset written in the string; valid = FALSE is a string that
\* the Date constructor cannot parse.
Timestamp(y, m, d, h, off) ==
  [valid |-> TRUE, y |-> y, m |-> m, d |-> d, h |-> h, off |-> off]

BadTimestamp == [valid |-> FALSE, y |-> 0, m |-> 0, d |-> 0, h |-> 0, off |-> 0]

\* new Date(timestamp).toISOString().split('T')[0]: the calendar day of the
\* instant in UTC.  Offsets are whole hours with |off| < 24.
toISODate(ts) ==
  LET day == [y |-> ts.y, m |-> ts.m, d |-> ts.d]
      utcHour == ts.h - ts.off
  IN  IF utcHour < 0 THEN PrevDay(day)
      ELSE IF utcHour >= 24 THEN NextDay(day)
      ELSE day

\* new Date("YYYY-MM-DD").getFullYear(): a date-only string is UTC midnight,
\* getFullYear reads the year of that instant in the local zone of the
\* machine (tz = hours east of UTC, |tz| < 24).
getFullYear(dt, tz) ==
  LET localHour == 0 + tz
  IN  IF localHour < 0 THEN PrevDay(dt).y
      ELSE IF localHour >= 24 THEN NextDay(dt).y
      ELSE dt.y

\* new Date(dateStr).getTime() orders date strings as the calendar does
getTime(dt) == (dt.y * 12 + (dt.m - 1)) * 31 + (dt.d - 1)

\* ---------------------------------------------------------------- geometry
\* utils.ts haversine, for points on one meridian (see the header)
haversine(lat1, lon1, lat2, lon2) == Abs(lat2 - lat1)

\* ------------------------------------------------------ coordinate strings
E7 == 10000000

\* the text of a coordinate field: which of the patterns occur in it
CoordStr(latE7, lngE7, deg) ==
  [string |-> TRUE, latE7 |-> latE7, lngE7 |-> lngE7, deg |-> deg]

\* a latLng member of the JSON document that is not a string (a number, an
\* object): it has no match method
NotAString == [string |-> FALSE, latE7 |-> None, lngE7 |-> None, deg |-> None]

E7Str(lat, lon) == CoordStr(Some(lat * E7), Some(lon * E7), None)

DegStr(lat, lon) == CoordStr(None, None, Some([lat |-> lat, lon |-> lon]))

GarbageStr == CoordStr(None, None, None)

parseCoordinateString_decimalfirst(coordStr) ==
  IF ~coordStr.string THEN None
  ELSE IF IsSome(coordStr.deg)
  THEN Some([lat |-> Val(coordStr.deg).lat, lon |-> Val(coordStr.deg).lon])
  ELSE IF IsSome(coordStr.latE7) /\ IsSome(coordStr.lngE7)
  THEN Some([lat |-> Val(coordStr.latE7) \div E7, lon |-> Val(coordStr.lngE7) \div E7])
  ELSE None

\* utils.ts parseCoordinateString; the TypeError of `coordStr.match` on a
\* value that is not a string is caught and gives null
parseCoordinateString(coordStr) ==
  IF ~coordStr.string THEN None
  ELSE IF IsSome(coordStr.latE7) /\ IsSome(coordStr.lngE7)
  THEN Some([lat |-> Val(coordStr.latE7) \div E7, lon |-> Val(coordStr.lngE7) \div E7])
  ELSE IF IsSome(coordStr.deg)
  THEN Some([lat |-> Val(coordStr.deg).lat, lon |-> Val(coordStr.deg).lon])
  ELSE None

\* ---------------------------------------------------------------- matching
withinRadius_strict(dist, radius_km) == dist < radius_km

\* utils.ts findMatchingBusinessLocation, the test `dist <= location.radius_km`
withinRadius(dist, radius_km) == dist <= radius_km

RECURSIVE findMatchingFrom(_, _, _, _)
\* the for loop of findMatchingBusinessLocation, from the i-th location on
findMatchingFrom(lat, lon, locations, i) ==
  IF i > Len(locations) THEN None
  ELSE IF withinRadius(haversine(locations[i].lat, locations[i].lon, lat, lon),
                       locations[i].radius_km)
  THEN Some(locations[i])
  ELSE findMatchingFrom(lat, lon, locations, i + 1)

\* utils.ts findMatchingBusinessLocation
findMatchingBusinessLocation(lat, lon, locations) ==
  findMatchingFrom(lat, lon, locations, 1)

\* ---------------------------------------------------------------- segments
\* One timeline segment.  startTime, endTime: optional timestamp strings;
\* visit, activityStart, activityEnd: the optional latLng strings of
\* visit.topCandidate.placeLocation, activity.start and activity.end;
\* timelinePath: the list of optional point strings.
Segment(startTime, endTime, visit, activityStart, activityEnd, timelinePath) ==
  [startTime |-> startTime, endTime |-> endTime, visit |-> visit,
   activityStart |-> activityStart, activityEnd |-> activityEnd,
   timelinePath |-> timelinePath]

\* parse an optional string field; a missing field contributes nothing
parseField(field) ==
  IF IsSome(field) THEN parseCoordinateString(Val(field)) ELSE None

RECURSIVE parsePath(_, _)
\* the loop over segment.timelinePath of extractCoordinatesFromSegment
parsePath(path, i) ==
  IF i > Len(path) THEN <<>>
  ELSE parseField(path[i]) \o parsePath(path, i + 1)

extractCoordinatesFromSegment_pathfirst(segment) ==
  parsePath(segment.timelinePath, 1) \o parseField(segment.visit)
    \o parseField(segment.activityStart) \o parseField(segment.activityEnd)

\* BusinessLocationAnalyzer.extractCoordinatesFromSegment
extractCoordinatesFromSegment(segment) ==
  parseField(segment.visit) \o parseField(segment.activityStart)
    \o parseField(segment.activityEnd) \o parsePath(segment.timelinePath, 1)

\* BusinessLocationAnalyzer.extractDateFromSegment: startTime || endTime,
\* null without a timestamp, null when toISOString throws on an invalid Date
extractDateFromSegment(segment) ==
  LET timestamp == IF IsSome(segment.startTime) THEN segment.startTime
                   ELSE segment.endTime
  IN  IF ~IsSome(timestamp) THEN None
      ELSE IF ~Val(timestamp).valid THEN None
      ELSE Some(toISODate(Val(timestamp)))

\* BusinessLocationAnalyzer.isTargetYear
isTargetYear(dateStr, targetYear, tz) == getFullYear(dateStr, tz) = targetYear

\* ------------------------------------------------------------ distance cache
EmptyCache == [n \in {} |-> 0]

\* Map.set
CacheSet(cache, name, value) ==
  [n \in DOMAIN cache \cup {name} |-> IF n = name THEN value ELSE cache[n]]

\* the haversine fallback home -> location (preCalculateDistances, getCachedDistance)
fallbackDistance(config, location) ==
  haversine(config.homeLocation.lat, config.homeLocation.lon,
            location.lat, location.lon)

getCachedDistance_earlier(cache, businessLocationName, config) ==
  [value |-> IF businessLocationName \in DOMAIN cache
                /\ cache[businessLocationName] # NaN
             THEN cache[businessLocationName] ELSE 0,
   cache |-> cache]

getCachedDistance_once(cache, businessLocationName, config) ==
  IF businessLocationName \in DOMAIN cache
  THEN [value |-> cache[businessLocationName],
        cache |-> [n \in DOMAIN cache \ {businessLocationName} |-> cache[n]]]
  ELSE LET found == {i \in 1..Len(config.businessLocations) :
                       config.businessLocations[i].name = businessLocationName}
       IN  IF found # {}
           THEN [value |-> fallbackDistance(config,
                             config.businessLocations[
                               CHOOSE i \in found : \A j \in found : i <= j]),
                 cache |-> cache]
           ELSE [value |-> 0, cache |-> cache]

\* BusinessLocationAnalyzer.getCachedDistance: the value returned and the
\* cache it leaves behind
getCachedDistance(cache, businessLocationName, config) ==
  IF businessLocationName \in DOMAIN cache
  THEN [value |-> cache[businessLocationName], cache |-> cache]
  ELSE LET found == {i \in 1..Len(config.businessLocations) :
                       config.businessLocations[i].name = businessLocationName}
       IN  IF found # {}
           THEN LET location == config.businessLocations[
                                  CHOOSE i \in found : \A j \in found : i <= j]
                    d == fallbackDistance(config, location)
                IN  [value |-> d, cache |-> CacheSet(cache, businessLocationName, d)]
           ELSE [value |-> 0, cache |-> cache]

\* ------------------------------------------------------------ the matching pass
\* state of one matching pass: the visits pushed so far, the visitedDates
\* set, the distance cache, and matchLog, the record of every call of
\* findMatchingBusinessLocation made by the pass with its result
MatchState(visits, visitedDates, cache, matchLog) ==
  [visits |-> visits, visitedDates |-> visitedDates, cache |-> cache,
   matchLog |-> matchLog]

shouldAddVisit_nodedup(date, isInTargetYear, visitedDates) ==
  IsSome(date) /\ isInTargetYear

\* the condition `date && isInTargetYear && !visitedDates.has(date)`
shouldAddVisit(date, isInTargetYear, visitedDates) ==
  IsSome(date) /\ isInTargetYear /\ Val(date) \notin visitedDates

\* this.config.costPerKm || 0
costPerKmOf(config) == IF IsSome(config.costPerKm) THEN Val(config.costPerKm) ELSE 0

onMatch_oneway(st, matchingLocation, date, isInTargetYear, config) ==
  IF shouldAddVisit(date, isInTargetYear, st.visitedDates)
  THEN LET got == getCachedDistance(st.cache, matchingLocation.name, config)
           distanceFromHome == got.value
           taxDeductibleCosts == jsMul(distanceFromHome, costPerKmOf(config))
       IN  MatchState(
             Append(st.visits,
                    [date |-> Val(date),
                     businessLocation |-> matchingLocation,
                     homeLocation |-> config.homeLocation,
                     distanceKm |-> distanceFromHome,
                     travelReason |-> matchingLocation.travelReason,
                     taxDeductibleCosts |-> taxDeductibleCosts]),
             st.visitedDates \cup {Val(date)},
             got.cache,
             st.matchLog)
  ELSE st

onMatch_finite(st, matchingLocation, date, isInTargetYear, config) ==
  IF /\ shouldAddVisit(date, isInTargetYear, st.visitedDates)
     /\ getCachedDistance(st.cache, matchingLocation.name, config).value # NaN
  THEN LET got == getCachedDistance(st.cache, matchingLocation.name, config)
           distanceFromHome == got.value
           taxDeductibleCosts == jsMul(jsMul(distanceFromHome, costPerKmOf(config)), 2)
       IN  MatchState(
             Append(st.visits,
                    [date |-> Val(date),
                     businessLocation |-> matchingLocation,
                     homeLocation |-> config.homeLocation,
                     distanceKm |-> distanceFromHome,
                     travelReason |-> matchingLocation.travelReason,
                     taxDeductibleCosts |-> taxDeductibleCosts]),
             st.visitedDates \cup {Val(date)},
             got.cache,
             st.matchLog)
  ELSE st

\* the body of `if (matchingLocation)`: push a Visit and record its day, or
\* leave everything as it is
onMatch(st, matchingLocation, date, isInTargetYear, config) ==
  IF shouldAddVisit(date, isInTargetYear, st.visitedDates)
  THEN LET got == getCachedDistance(st.cache, matchingLocation.name, config)
           distanceFromHome == got.value
           taxDeductibleCosts == jsMul(jsMul(distanceFromHome, costPerKmOf(config)), 2)
       IN  MatchState(
             Append(st.visits,
                    [date |-> Val(date),
                     businessLocation |-> matchingLocation,
                     homeLocation |-> config.homeLocation,
                     distanceKm |-> distanceFromHome,
                     travelReason |-> matchingLocation.travelReason,
                     taxDeductibleCosts |-> taxDeductibleCosts]),
             st.visitedDates \cup {Val(date)},
             got.cache,
             st.matchLog)
  ELSE st

RECURSIVE checkCoordinates(_, _, _, _, _, _)
\* the loop `for (const coord of coordinates)`, from the k-th coordinate on;
\* it breaks at the first coordinate that matches a location
checkCoordinates(st, coordinates, k, date, isInTargetYear, config) ==
  IF k > Len(coordinates) THEN st
  ELSE LET coord == coordinates[k]
           matchingLocation ==
             findMatchingBusinessLocation(coord.lat, coord.lon, config.businessLocations)
           logged == [st EXCEPT !.matchLog =
                        Append(@, [lat |-> coord.lat, lon |-> coord.lon,
                                   result |-> matchingLocation])]
       IN  IF IsSome(matchingLocation)
           THEN onMatch(logged, Val(matchingLocation), date, isInTargetYear, config)
           ELSE checkCoordinates(logged, coordinates, k + 1, date, isInTargetYear, config)

\* one iteration of `for (const segment of segments)`
processSegment(st, segment, config, tz) ==
  LET coordinates == extractCoordinatesFromSegment(segment)
      date == extractDateFromSegment(segment)
      isInTargetYear == IsSome(date) /\ isTargetYear(Val(date), config.targetYear, tz)
  IN  IF Len(coordinates) = 0 THEN st
      ELSE checkCoordinates(st, coordinates, 1, date, isInTargetYear, config)

RECURSIVE processFrom(_, _, _, _, _)
\* the loop over the segments, from the i-th segment on
processFrom(st, segments, i, config, tz) ==
  IF i > Len(segments) THEN st
  ELSE processFrom(processSegment(st, segments[i], config, tz),
                   segments, i + 1, config, tz)

Reverse(seq) == [i \in 1..Len(seq) |-> seq[Len(seq) + 1 - i]]

processSegments_reversed(cache, segments, config, tz) ==
  processFrom(MatchState(<<>>, {}, cache, <<>>), Reverse(segments), 1, config, tz)

\* `for (const segment of segments)` with visits and visitedDates empty
processSegments(cache, segments, config, tz) ==
  processFrom(MatchState(<<>>, {}, cache, <<>>), segments, 1, config, tz)

RECURSIVE insertVisit(_, _)
\* insert v into a list sorted by date, after the entries that are not later
insertVisit(sorted, v) ==
  IF sorted = <<>> THEN <<v>>
  ELSE IF getTime(Head(sorted).date) <= getTime(v.date)
  THEN <<Head(sorted)>> \o insertVisit(Tail(sorted), v)
  ELSE <<v>> \o sorted

sortVisits_unsorted(visits) == visits

RECURSIVE sortVisits(_)
\* visits.sort((a, b) => new Date(a.date).getTime() - new Date(b.date).getTime()),
\* a stable sort
sortVisits(visits) ==
  IF visits = <<>> THEN <<>>
  ELSE insertVisit(sortVisits(SubSeq(visits, 1, Len(visits) - 1)), visits[Len(visits)])

\* ------------------------------------------------------------------- exports
\* A TimelineData document: semanticSegments is an optional list of segments,
\* timelineObjects an optional list of objects, each with an optional
\* timelineSegments list.
TimelineData(semanticSegments, timelineObjects) ==
  [semanticSegments |-> semanticSegments, timelineObjects |-> timelineObjects]

TimelineObject(timelineSegments) == [timelineSegments |-> timelineSegments]

RECURSIVE flattenObjects(_, _)
\* the loop over timelineData.timelineObjects pushing every timelineSegments
flattenObjects(objects, i) ==
  IF i > Len(objects) THEN <<>>
  ELSE (IF IsSome(objects[i].timelineSegments)
        THEN Val(objects[i].timelineSegments) ELSE <<>>)
       \o flattenObjects(objects, i + 1)

normalize_unguarded(timelineData) ==
  IF IsSome(timelineData.semanticSegments)
     /\ Len(Val(timelineData.semanticSegments)) > 0
  THEN [kind |-> "segments", segments |-> Val(timelineData.semanticSegments)]
  ELSE IF ~IsSome(timelineData.timelineObjects)
  THEN [kind |-> "throw", segments |-> <<>>]
  ELSE IF Len(Val(timelineData.timelineObjects)) > 0
  THEN [kind |-> "segments",
        segments |-> flattenObjects(Val(timelineData.timelineObjects), 1)]
  ELSE [kind |-> "unsupported", segments |-> <<>>]

\* the if / else if / else that selects the segment list of analyzeTimeline
normalize(timelineData) ==
  IF IsSome(timelineData.semanticSegments)
     /\ Len(Val(timelineData.semanticSegments)) > 0
  THEN [kind |-> "segments", segments |-> Val(timelineData.semanticSegments)]
  ELSE IF IsSome(timelineData.timelineObjects)
          /\ Len(Val(timelineData.timelineObjects)) > 0
  THEN [kind |-> "segments",
        segments |-> flattenObjects(Val(timelineData.timelineObjects), 1)]
  ELSE [kind |-> "unsupported", segments |-> <<>>]

\* ------------------------------------------------------------------- inputs
Home == [name |-> "Home", lat |-> 0, lon |-> 0, address |-> "Berlin"]

\* the meridian of the model: every coordinate has the longitude of Home
Lon0 == Home.lon

Office ==
  [name |-> "Office", lat |-> 10, lon |-> Lon0, radius_km |-> 2,
   address |-> "Kirschenhof 2", travelReason |-> None]

Client ==
  [name |-> "Client", lat |-> 13, lon |-> Lon0, radius_km |-> 3,
   address |-> "Leipzig", travelReason |-> Some("Kundentermin")]

\* the business location lists: empty, one entry, and two entries with
\* overlapping radii
BusinessLists == {<<>>, <<Office>>, <<Office, Client>>}

TargetYears == {2024}

\* the rate in cents per km
CostsPerKm == {Some(30)}

AnalyzerConfig(targetYear, businessLocations, costPerKm) ==
  [targetYear |-> targetYear, businessLocations |-> businessLocations,
   homeLocation |-> Home, costPerKm |-> costPerKm]

\* the configs: every list with a rate, and the one-entry list without
\* costPerKm, as the analyzer page builds its config
Configs ==
  {AnalyzerConfig(y, bl, c) : y \in TargetYears, bl \in BusinessLists, c \in CostsPerKm}
  \cup {AnalyzerConfig(y, <<Office>>, None) : y \in TargetYears}

\* local UTC offsets of the machine, in hours: west and east of Greenwich
TzOffsets == {-5, 1}

\* route lengths in metres the routing service may answer
RouteMeters == {15000}

\* 2025-01-01 00:00 at +01:00 and 2024-12-31 18:00 at +01:00: both are
\* 31 December 2024 in UTC
TsNewYearsNight == Timestamp(2025, 1, 1, 0, 1)

TsNewYearsEve == Timestamp(2024, 12, 31, 18, 1)

TsJan1Next == Timestamp(2025, 1, 1, 12, 0)

TsJan1 == Timestamp(2024, 1, 1, 12, 0)

TsMarch == Timestamp(2024, 3, 15, 10, 1)

\* a stay at the Office centre, which lies on the radius of Client
SegOfficeVisit ==
  Segment(Some(TsNewYearsNight), None, Some(DegStr(10, Lon0)), None, None, <<>>)

\* a trip on the same UTC day that starts nowhere and ends on the far radius
\* of Client
SegClientTrip ==
  Segment(Some(TsNewYearsEve), Some(TsNewYearsEve), None,
          Some(E7Str(30, Lon0)), Some(E7Str(16, Lon0)), <<>>)

\* a stay on the near radius of Office on 1 January of the next year
SegJan1Next ==
  Segment(Some(TsJan1Next), None, Some(E7Str(8, Lon0)), None, None, <<>>)

\* only an end time, 1 January of the target year; a path with a missing
\* point, an unparseable point and a point inside both radii
SegJan1Path ==
  Segment(None, Some(TsJan1), None, None, None,
          <<None, Some(GarbageStr), Some(DegStr(12, Lon0))>>)

\* an unparseable start time in front of a valid end time
SegBadStart ==
  Segment(Some(BadTimestamp), Some(TsMarch), Some(DegStr(10, Lon0)),
          None, None, <<>>)

\* the segments of the exports, in the order of their start of recording
Segments == <<SegJan1Path, SegBadStart, SegClientTrip, SegOfficeVisit, SegJan1Next>>

\* the segment lists of the exports: up to MaxSegments different segments,
\* oldest first or newest first
SegmentLists ==
  UNION {{[i \in 1..n |-> Segments[pick[i]]] :
            pick \in {p \in [1..n -> 1..Len(Segments)] :
                        \/ \A i \in 1..(n - 1) : p[i] < p[i + 1]
                        \/ \A i \in 1..(n - 1) : p[i] > p[i + 1]}} :
           n \in 0..MaxSegments}

\* the legacy shape of a segment list: its first segment in one object, an
\* object without timelineSegments, the remaining segments in a third
LegacyObjects(segs) ==
  IF segs = <<>> THEN <<TimelineObject(None)>>
  ELSE <<TimelineObject(Some(<<Head(segs)>>)), TimelineObject(None),
         TimelineObject(Some(Tail(segs)))>>

\* the lists that are also given in the legacy shape
LegacyLists == {l \in SegmentLists : l = <<>> \/ Head(l) = SegClientTrip}

Exports ==
  {TimelineData(None, None), TimelineData(None, Some(<<>>)),
   TimelineData(Some(<<>>), None)}
  \cup {TimelineData(Some(segs), None) : segs \in SegmentLists}
  \cup {TimelineData(None, Some(LegacyObjects(segs))) : segs \in LegacyLists}
  \cup {TimelineData(Some(segs), Some(LegacyObjects(Reverse(segs)))) :
          segs \in {l \in SegmentLists : Len(l) = 1}}

\* ------------------------------------------------------------ routing lookups
\* The ways the HTTP request of calculateRoute ends.  status is the HTTP
\* status (0: no response), code the error code of the HTTP client, routes
\* the `routes` member of a 200 body (None: the body has none); a route is
\* its summary (None: the route has none), a summary its distance in metres
\* and its duration in seconds (None: the member is missing).
Http(status, code, routes) == [status |-> status, code |-> code, routes |-> routes]

Summary(distance, duration) == [distance |-> distance, duration |-> duration]

HttpOutcomes ==
  {Http(200, "", Some(<<Some(Summary(Some(m), Some(m \div 10)))>>)) : m \in RouteMeters}
  \cup {Http(200, "", Some(<<Some(Summary(None, None))>>)),
        Http(200, "", Some(<<None>>)),
        Http(200, "", Some(<<>>)),
        Http(200, "", None),
        Http(403, "ERR_BAD_REQUEST", None),
        Http(404, "ERR_BAD_REQUEST", None),
        Http(500, "ERR_BAD_RESPONSE", None),
        Http(0, "ECONNABORTED", None),
        Http(0, "ERR_NETWORK", None)}

\* what a calculateRoute promise settles with: a RouteResult, a RoutingError
\* or, for a promise that rejects, the exception
RouteResult(distance, duration) ==
  [kind |-> "result", distance |-> distance, duration |-> duration,
   message |-> "", code |-> None]

RoutingError(message, code) ==
  [kind |-> "error", distance |-> None, duration |-> None,
   message |-> message, code |-> code]

Rejection(message) ==
  [kind |-> "throw", distance |-> None, duration |-> None,
   message |-> message, code |-> None]

\* the catch block of calculateRoute
routingErrorOf(http) ==
  IF http.status = 403
  THEN RoutingError("API key invalid or quota exceeded", Some("API_ERROR"))
  ELSE IF http.status = 404
  THEN RoutingError("No route found between these locations", Some("NO_ROUTE"))
  ELSE IF http.code = "ECONNABORTED"
  THEN RoutingError("Request timeout - please try again", Some("TIMEOUT"))
  ELSE RoutingError("Failed to calculate route", Some("UNKNOWN_ERROR"))

calculateRoute_nocatch(http) ==
  IF http.status # 200 \/ ~IsSome(http.routes) THEN Rejection("Error")
  ELSE IF Len(Val(http.routes)) = 0 THEN RoutingError("No route found", None)
  ELSE IF ~IsSome(Val(http.routes)[1]) THEN Rejection("TypeError")
  ELSE LET summary == Val(Val(http.routes)[1])
       IN  RouteResult(summary.distance, summary.duration)

\* calculateRoute, given how its HTTP request ends: the request throws for a
\* status other than 2xx and when there is no response; reading routes[0] of
\* a body without routes, or the summary members of a route without
\* summary, throws a TypeError inside the same try block
calculateRoute(http) ==
  IF http.status # 200 \/ ~IsSome(http.routes) THEN routingErrorOf(http)
  ELSE IF Len(Val(http.routes)) = 0 THEN RoutingError("No route found", None)
  ELSE IF ~IsSome(Val(http.routes)[1]) THEN routingErrorOf(http)
  ELSE LET summary == Val(Val(http.routes)[1])
       IN  RouteResult(summary.distance, summary.duration)

\* How the calculateRoute awaited by preCalculateDistances settles: with
\* what calculateRoute makes of the HTTP outcome, or, when a routing function
\* that can fail is put in its place, with a rejection.
RouteOutcomes == {calculateRoute(http) : http \in HttpOutcomes} \cup {Rejection("Error")}

\* `routeResult.distance / 1000`; a missing distance is undefined, and
\* undefined / 1000 is NaN
toKm(distance) == IF IsSome(distance) THEN Val(distance) \div 1000 ELSE NaN

handleRouteOutcome_nocatch(config, businessLocation, outcome) ==
  IF outcome.kind = "result"
  THEN [set |-> TRUE, value |-> toKm(outcome.distance), next |-> "delay"]
  ELSE IF outcome.kind = "error"
  THEN [set |-> TRUE, value |-> fallbackDistance(config, businessLocation),
        next |-> "delay"]
  ELSE [set |-> FALSE, value |-> 0, next |-> "reject"]

handleRouteOutcome_noset(config, businessLocation, outcome) ==
  IF outcome.kind = "result"
  THEN [set |-> TRUE, value |-> toKm(outcome.distance), next |-> "delay"]
  ELSE IF outcome.kind = "error"
  THEN [set |-> TRUE, value |-> fallbackDistance(config, businessLocation),
        next |-> "delay"]
  ELSE [set |-> FALSE, value |-> 0, next |-> "continue"]

\* The body of the try / catch of preCalculateDistances once the awaited
\* calculateRoute has settled: whether and what it stores in the cache for
\* the location, and how the loop goes on: "delay" awaits the 100 ms timer,
\* "continue" starts the next iteration at once (the catch block), "reject"
\* lets the exception escape the async function.
handleRouteOutcome(config, businessLocation, outcome) ==
  IF outcome.kind = "result"
  THEN [set |-> TRUE, value |-> toKm(outcome.distance), next |-> "delay"]
  ELSE IF outcome.kind = "error"
  THEN [set |-> TRUE, value |-> fallbackDistance(config, businessLocation),
        next |-> "delay"]
  ELSE [set |-> TRUE, value |-> fallbackDistance(config, businessLocation),
        next |-> "continue"]

\* ---------------------------------------------------------------------- state
VARIABLES
  config,               \* this.config
  tz,                   \* UTC offset of the machine's local time zone
  distanceCache,        \* this.distanceCache
  distancesCalculated,  \* this.distancesCalculated: the run whose promise it holds
  runs,                 \* the invocations of preCalculateDistances, in start order
  call,                 \* the analyzeTimeline call in progress or returned last:
                        \* the run it started, the run it awaits, its argument
                        \* and, once returned, its result
  ncalls,               \* number of analyzeTimeline calls made
  issued,               \* history: calculateRoute requests issued, per location name
  lastWrite,            \* history: what wrote each cache entry last
  probe,                \* the function applied last on its own, with its
                        \* arguments and its result (FnSpec only)
  twin,                 \* two analyzer instances side by side (TwinSpec only)
  storage,              \* the timeline file storage: IndexedDB, localStorage
                        \* and the storage calls in progress (StorageSpec only)
  page                  \* the state of the analyzer page and its handleAnalyze
                        \* invocation (PageSpec only)

vars ==
  <<config, tz, distanceCache, distancesCalculated, runs, call, ncalls, issued,
    lastWrite, probe, twin, storage, page>>

LocationNames(cfg) ==
  {cfg.businessLocations[i].name : i \in 1..Len(cfg.businessLocations)}

\* A run of preCalculateDistances is at its i-th location: "route" awaits
\* calculateRoute, "delay" awaits the timer; "done" and "rejected" are the
\* two ways its promise settles.
startedRun(cfg) ==
  IF Len(cfg.businessLocations) = 0 THEN [pc |-> "done", i |-> 0]
  ELSE [pc |-> "route", i |-> 1]

nextIteration_stuck(run, cfg) ==
  IF run.i < Len(cfg.businessLocations) THEN [pc |-> "route", i |-> run.i + 1]
  ELSE [pc |-> "delay", i |-> run.i]

\* the next iteration of `for (const businessLocation of ...)` after the i-th
nextIteration(run, cfg) ==
  IF run.i < Len(cfg.businessLocations) THEN [pc |-> "route", i |-> run.i + 1]
  ELSE [pc |-> "done", i |-> run.i]

\* bookkeeping of the request a run issues when it enters "route"
countRequest(iss, run, cfg) ==
  IF run.pc = "route"
  THEN [iss EXCEPT ![cfg.businessLocations[run.i].name] = @ + 1]
  ELSE iss

NoCall ==
  [pc |-> "none", run |-> 0, awaited |-> 0, timelineData |-> None, visits |-> <<>>,
   matchLog |-> <<>>]

NoProbe ==
  [op |-> "none", name |-> "", before |-> EmptyCache, value |-> 0,
   http |-> Http(0, "", None), result |-> Rejection(""),
   segment |-> Segment(None, None, None, None, None, <<>>),
   after |-> MatchState(<<>>, {}, EmptyCache, <<>>),
   date |-> None, coordStr |-> GarbageStr, parsed |-> None]

NoTwin == [caches |-> <<>>, inst |-> <<>>, alone |-> <<>>]

NoStorage == [idb |-> {}, meta |-> <<>>, ops |-> <<>>]

NoPage ==
  [pc |-> "none", file |-> None, isAnalyzing |-> FALSE, results |-> <<>>,
   error |-> None, captured |-> None, timelineData |-> None,
   last |-> [kind |-> "none", visits |-> <<>>]]

\* new BusinessLocationAnalyzer(config): the constructor has stored the
\* config and started the first preCalculateDistances, which has cleared the
\* cache and awaits its first calculateRoute
Init ==
  /\ config \in Configs
  /\ tz \in TzOffsets
  /\ distanceCache = EmptyCache
  /\ distancesCalculated = 1
  /\ runs = <<startedRun(config)>>
  /\ call = NoCall
  /\ ncalls = 0
  /\ issued = countRequest([n \in LocationNames(config) |-> 0],
                           startedRun(config), config)
  /\ lastWrite = EmptyCache
  /\ probe = NoProbe
  /\ twin = NoTwin
  /\ storage = NoStorage
  /\ page = NoPage

\* the calculateRoute awaited by run r settles with the given outcome
CalculateRouteSettles(r, outcome) ==
  /\ runs[r].pc = "route"
  /\ LET businessLocation == config.businessLocations[runs[r].i]
         h == handleRouteOutcome(config, businessLocation, outcome)
         after == IF h.next = "delay" THEN [runs[r] EXCEPT !.pc = "delay"]
                  ELSE IF h.next = "continue" THEN nextIteration(runs[r], config)
                  ELSE [runs[r] EXCEPT !.pc = "rejected"]
     IN  /\ runs' = [runs EXCEPT ![r] = after]
         /\ distanceCache' =
              IF h.set THEN CacheSet(distanceCache, businessLocation.name, h.value)
              ELSE distanceCache
         /\ lastWrite' =
              IF h.set THEN CacheSet(lastWrite, businessLocation.name, outcome.kind)
              ELSE lastWrite
         /\ issued' = IF h.next = "continue" THEN countRequest(issued, after, config)
                      ELSE issued
  /\ UNCHANGED <<config, tz, distancesCalculated, call, ncalls, probe, twin,
                 storage, page>>

\* the 100 ms timer awaited by run r fires
DelayElapses(r) ==
  /\ runs[r].pc = "delay"
  /\ LET after == nextIteration(runs[r], config)
     IN  /\ runs' = [runs EXCEPT ![r] = after]
         /\ issued' = countRequest(issued, after, config)
  /\ UNCHANGED <<config, tz, distanceCache, distancesCalculated, call, ncalls,
                 lastWrite, probe, twin, storage, page>>

awaitedRun_stale(oldPromise, newPromise) == oldPromise

\* `this.distancesCalculated = this.preCalculateDistances();
\*  await this.distancesCalculated;`: the promise the call waits for
awaitedRun(oldPromise, newPromise) == newPromise

\* analyzeTimeline(timelineData) is called, after the previous call (if any)
\* has settled: it starts a new preCalculateDistances, which clears the cache
\* and issues its first request, and suspends at the await
AnalyzeTimeline(timelineData) ==
  /\ ncalls < MaxCalls
  /\ call.pc \in {"none", "returned", "rejected"}
  /\ LET new == Len(runs) + 1
     IN  /\ runs' = Append(runs, startedRun(config))
         /\ distancesCalculated' = new
         /\ call' = [pc |-> "awaiting",
                     run |-> new,
                     awaited |-> awaitedRun(distancesCalculated, new),
                     timelineData |-> Some(timelineData),
                     visits |-> <<>>, matchLog |-> <<>>]
  /\ distanceCache' = EmptyCache
  /\ lastWrite' = EmptyCache
  /\ issued' = countRequest(issued, startedRun(config), config)
  /\ ncalls' = ncalls + 1
  /\ UNCHANGED <<config, tz, probe, twin, storage, page>>

exportAfter_reordered(timelineData) ==
  IF IsSome(timelineData.semanticSegments)
     /\ Len(Val(timelineData.semanticSegments)) > 0
  THEN [timelineData EXCEPT
          !.semanticSegments = Some(Reverse(normalize(timelineData).segments))]
  ELSE timelineData

\* The export as analyzeTimeline leaves it.  `segments =
\* timelineData.semanticSegments` makes the local name an alias of the
\* export's list, so what the function does to `segments` from there on it
\* does to the export: it iterates over it and never assigns an element,
\* pushes or sorts (the sort of the last line is on `visits`).  The legacy
\* branch pushes onto the fresh local array, not onto a list of the export.
exportAfter(timelineData) ==
  IF IsSome(timelineData.semanticSegments)
     /\ Len(Val(timelineData.semanticSegments)) > 0
  THEN [timelineData EXCEPT
          !.semanticSegments = Some(normalize(timelineData).segments)]
  ELSE timelineData

\* analyzeTimeline from the end of its await to its return or throw: no
\* await, so it runs in one piece.  The call as it settles, and the cache the
\* matching pass leaves behind.
resumeAnalyzeTimeline(c, awaitedPc, cache, cfg, zone) ==
  IF awaitedPc = "rejected"
  THEN [call |-> [c EXCEPT !.pc = "rejected"], cache |-> cache]
  ELSE LET norm == normalize(Val(c.timelineData))
       IN  IF norm.kind = "throw"
           THEN [call |-> [c EXCEPT !.pc = "rejected"], cache |-> cache]
           ELSE IF norm.kind = "unsupported"
           THEN [call |-> [c EXCEPT !.pc = "returned", !.visits = <<>>],
                 cache |-> cache]
           ELSE LET st == processSegments(cache, norm.segments, cfg, zone)
                IN  [call |-> [c EXCEPT !.pc = "returned",
                                        !.visits = sortVisits(st.visits),
                                        !.matchLog = st.matchLog,
                                        !.timelineData =
                                          Some(exportAfter(Val(c.timelineData)))],
                     cache |-> st.cache]

\* the awaited promise has settled and analyzeTimeline resumes
AnalyzeTimelineResumes ==
  /\ call.pc = "awaiting"
  /\ runs[call.awaited].pc \in {"done", "rejected"}
  /\ LET resumed == resumeAnalyzeTimeline(call, runs[call.awaited].pc,
                                          distanceCache, config, tz)
     IN  /\ call' = resumed.call
         /\ distanceCache' = resumed.cache
  /\ UNCHANGED <<config, tz, distancesCalculated, runs, ncalls, issued, lastWrite,
                 probe, twin, storage, page>>

Next ==
  \/ \E r \in 1..Len(runs), outcome \in RouteOutcomes : CalculateRouteSettles(r, outcome)
  \/ \E r \in 1..Len(runs) : DelayElapses(r)
  \/ \E timelineData \in Exports : AnalyzeTimeline(timelineData)
  \/ AnalyzeTimelineResumes

Spec == Init /\ [][Next]_vars

\* What the event loop does for the pending lookups: a request settles, a
\* timer fires.
Lookups ==
  \/ \E r \in 1..Len(runs), outcome \in RouteOutcomes : CalculateRouteSettles(r, outcome)
  \/ \E r \in 1..Len(runs) : DelayElapses(r)

\* the promise awaited by the analyzeTimeline call has settled: the state in
\* which AnalyzeTimelineResumes is enabled
ResumeReady ==
  call.pc = "awaiting" /\ runs[call.awaited].pc \in {"done", "rejected"}

\* The matching pass is one step whatever the export holds; the exports of
\* the fair specification are those of every shape with at most one segment.
FairExports ==
  {timelineData \in Exports : Len(normalize(timelineData).segments) <= 1}

FairNext ==
  \/ Lookups
  \/ \E timelineData \in FairExports : AnalyzeTimeline(timelineData)
  \/ AnalyzeTimelineResumes

\* Every routing request settles (the HTTP client gives up after 10 s at
\* the latest) and every timer fires: the lookup steps are finitely many
\* between two calls, so weak fairness of their disjunction gives each of
\* them its turn.  The continuation of a settled await is run: weak fairness
\* of AnalyzeTimelineResumes, whose step always ends ResumeReady and which is
\* enabled exactly in ResumeReady, written as []<>~ResumeReady.
FairSpec ==
  Init /\ [][FairNext]_vars /\ WF_vars(Lookups) /\ []<>~ResumeReady

\* ------------------------------------------------- functions on their own
\* distances in km a cache entry may hold
CachedKm == {0, 15}

\* the caches with entries for some of the names
PartialCaches(names) == UNION {[keys -> CachedKm] : keys \in SUBSET names}

\* An analyzer whose cache holds some of its locations, as it does when a
\* later preCalculateDistances has cleared the cache under a matching pass.
FnInit ==
  /\ config \in Configs
  /\ tz \in TzOffsets
  /\ distanceCache \in PartialCaches(LocationNames(config))
  /\ distancesCalculated = 1
  /\ runs = <<[pc |-> "done", i |-> Len(config.businessLocations)]>>
  /\ call = NoCall
  /\ ncalls = 0
  /\ issued = [n \in LocationNames(config) |-> 1]
  /\ lastWrite = EmptyCache
  /\ probe = NoProbe
  /\ twin = NoTwin
  /\ storage = NoStorage
  /\ page = NoPage

\* this.getCachedDistance(businessLocationName), with the name of one of
\* the business locations, as its one call site passes it
GetCachedDistance(businessLocationName) ==
  /\ businessLocationName \in LocationNames(config)
  /\ LET got == getCachedDistance(distanceCache, businessLocationName, config)
     IN  /\ probe' = [NoProbe EXCEPT !.op = "getCachedDistance",
                                     !.name = businessLocationName,
                                     !.before = distanceCache,
                                     !.value = got.value]
         /\ distanceCache' = got.cache
  /\ UNCHANGED <<config, tz, distancesCalculated, runs, call, ncalls, issued,
                 lastWrite, twin, storage, page>>

\* calculateRoute(start, end, profile) whose HTTP request ends as given
CalculateRoute(http) ==
  /\ probe' = [NoProbe EXCEPT !.op = "calculateRoute", !.http = http,
                              !.result = calculateRoute(http)]
  /\ UNCHANGED <<config, tz, distanceCache, distancesCalculated, runs, call,
                 ncalls, issued, lastWrite, twin, storage, page>>

\* a trip from the far radius of Client over the Office centre, with an
\* unreadable end and a path point at the Client centre
SegTwoHits ==
  Segment(Some(TsMarch), Some(TsMarch), Some(DegStr(16, Lon0)),
          Some(E7Str(10, Lon0)), Some(GarbageStr), <<Some(DegStr(13, Lon0))>>)

\* a path that leaves the Office radius and comes back into it
SegPathOnly ==
  Segment(Some(TsMarch), None, None, None, None,
          <<Some(E7Str(20, Lon0)), None, Some(E7Str(9, Lon0)), Some(DegStr(11, Lon0))>>)

\* no timestamp at all, and two timestamps that do not parse
SegNoTime == Segment(None, None, Some(DegStr(10, Lon0)), None, None, <<>>)

SegBadTimes ==
  Segment(Some(BadTimestamp), Some(BadTimestamp), Some(DegStr(10, Lon0)),
          None, None, <<>>)

\* the segments the functions are applied to on their own
ProbeSegments ==
  {Segments[i] : i \in 1..Len(Segments)}
  \cup {SegTwoHits, SegPathOnly, SegNoTime, SegBadTimes}

\* one iteration of the segment loop of analyzeTimeline, with visits and
\* visitedDates empty
ProcessSegment(segment) ==
  /\ LET st == processSegment(MatchState(<<>>, {}, distanceCache, <<>>),
                              segment, config, tz)
     IN  /\ probe' = [NoProbe EXCEPT !.op = "processSegment",
                                     !.segment = segment,
                                     !.before = distanceCache,
                                     !.after = st]
         /\ distanceCache' = st.cache
  /\ UNCHANGED <<config, tz, distancesCalculated, runs, call, ncalls, issued,
                 lastWrite, twin, storage, page>>

\* this.extractDateFromSegment(segment)
ExtractDateFromSegment(segment) ==
  /\ probe' = [NoProbe EXCEPT !.op = "extractDateFromSegment",
                              !.segment = segment,
                              !.date = extractDateFromSegment(segment)]
  /\ UNCHANGED <<config, tz, distanceCache, distancesCalculated, runs, call,
                 ncalls, issued, lastWrite, twin, storage, page>>

\* the coordinate strings: every combination of a latE7 field, a lngE7
\* field and a decimal-degree pair, and a value that is not a string
CoordStrings ==
  {CoordStr(latE7, lngE7, deg) :
     latE7 \in {None, Some(10 * E7), Some(-3 * E7)},
     lngE7 \in {None, Some(Lon0 * E7)},
     deg \in {None, Some([lat |-> 12, lon |-> Lon0])}}
  \cup {NotAString}

\* parseCoordinateString(coordStr)
ParseCoordinateString(coordStr) ==
  /\ probe' = [NoProbe EXCEPT !.op = "parseCoordinateString",
                              !.coordStr = coordStr,
                              !.parsed = parseCoordinateString(coordStr)]
  /\ UNCHANGED <<config, tz, distanceCache, distancesCalculated, runs, call,
                 ncalls, issued, lastWrite, twin, storage, page>>

FnNext ==
  \/ \E name \in LocationNames(config) : GetCachedDistance(name)
  \/ \E http \in HttpOutcomes : CalculateRoute(http)
  \/ \E segment \in ProbeSegments : ProcessSegment(segment)
  \/ \E segment \in ProbeSegments : ExtractDateFromSegment(segment)
  \/ \E coordStr \in CoordStrings : ParseCoordinateString(coordStr)

FnSpec == FnInit /\ [][FnNext]_vars

\* ------------------------------------------------------------ two instances
\* Two analyzers constructed on one machine, each called once.  twin.inst
\* holds the config, the runs and the call of each instance, twin.caches the
\* distance caches, and twin.alone what the same instance comes to when the
\* same steps with the same routing outcomes are all that happens.
Analyzer(cfg, cache, rs, c) ==
  [config |-> cfg, distanceCache |-> cache, runs |-> rs, call |-> c]

cacheOf_static(k) == 1

\* `private distanceCache: Map<string, number> = new Map()`: a field
\* initializer, so instance k has the k-th map
cacheOf(k) == k

\* instance k as its own steps see it
Instance(k) ==
  Analyzer(twin.inst[k].config, twin.caches[cacheOf(k)], twin.inst[k].runs,
           twin.inst[k].call)

\* the calculateRoute awaited by run r of an analyzer settles
afterCalculateRoute(a, r, outcome) ==
  LET businessLocation == a.config.businessLocations[a.runs[r].i]
      h == handleRouteOutcome(a.config, businessLocation, outcome)
      after == IF h.next = "delay" THEN [a.runs[r] EXCEPT !.pc = "delay"]
               ELSE IF h.next = "continue" THEN nextIteration(a.runs[r], a.config)
               ELSE [a.runs[r] EXCEPT !.pc = "rejected"]
  IN  [a EXCEPT !.runs[r] = after,
                !.distanceCache =
                  IF h.set THEN CacheSet(@, businessLocation.name, h.value) ELSE @]

\* the timer awaited by run r of an analyzer fires
afterDelay(a, r) == [a EXCEPT !.runs[r] = nextIteration(@, a.config)]

\* analyzeTimeline(timelineData) is called on an analyzer that has only the
\* constructor's run, up to its await
afterAnalyzeTimeline(a, timelineData) ==
  [a EXCEPT !.runs = Append(@, startedRun(a.config)),
            !.distanceCache = EmptyCache,
            !.call = [pc |-> "awaiting",
                      run |-> Len(a.runs) + 1,
                      awaited |-> awaitedRun(Len(a.runs), Len(a.runs) + 1),
                      timelineData |-> Some(timelineData),
                      visits |-> <<>>, matchLog |-> <<>>]]

\* analyzeTimeline resumes on an analyzer
afterResume(a, zone) ==
  LET resumed == resumeAnalyzeTimeline(a.call, a.runs[a.call.awaited].pc,
                                       a.distanceCache, a.config, zone)
  IN  [a EXCEPT !.call = resumed.call, !.distanceCache = resumed.cache]

\* instance k has taken a step and is now `a`; on its own it is now `b`
TwinStep(k, a, b) ==
  /\ twin' = [twin EXCEPT
                !.inst[k] = [config |-> a.config, runs |-> a.runs, call |-> a.call],
                !.caches[cacheOf(k)] = a.distanceCache,
                !.alone[k] = b]
  /\ UNCHANGED <<config, tz, distanceCache, distancesCalculated, runs, call,
                 ncalls, issued, lastWrite, probe, storage, page>>

\* the configs of the two instances: both know Office
TwinConfigs ==
  <<AnalyzerConfig(2024, <<Office>>, Some(30)),
    AnalyzerConfig(2024, <<Office, Client>>, Some(30))>>

\* the exports the two instances are called with
TwinExports ==
  {TimelineData(Some(<<SegOfficeVisit>>), None),
   TimelineData(Some(<<SegJan1Path, SegClientTrip>>), None)}

\* both constructors have run: each instance has its empty cache and its
\* first preCalculateDistances awaiting its first calculateRoute
TwinInit ==
  /\ config = TwinConfigs[1]
  /\ tz \in TzOffsets
  /\ distanceCache = EmptyCache
  /\ distancesCalculated = 1
  /\ runs = <<startedRun(config)>>
  /\ call = NoCall
  /\ ncalls = 0
  /\ issued = [n \in LocationNames(config) |-> 1]
  /\ lastWrite = EmptyCache
  /\ probe = NoProbe
  /\ twin = [caches |-> [k \in 1..2 |-> EmptyCache],
             inst |-> [k \in 1..2 |->
                        [config |-> TwinConfigs[k],
                         runs |-> <<startedRun(TwinConfigs[k])>>,
                         call |-> NoCall]],
             alone |-> [k \in 1..2 |->
                         Analyzer(TwinConfigs[k], EmptyCache,
                                  <<startedRun(TwinConfigs[k])>>, NoCall)]]
  /\ storage = NoStorage
  /\ page = NoPage

TwinCalculateRouteSettles(k, r, outcome) ==
  /\ twin.inst[k].runs[r].pc = "route"
  /\ TwinStep(k, afterCalculateRoute(Instance(k), r, outcome),
               afterCalculateRoute(twin.alone[k], r, outcome))

TwinDelayElapses(k, r) ==
  /\ twin.inst[k].runs[r].pc = "delay"
  /\ TwinStep(k, afterDelay(Instance(k), r), afterDelay(twin.alone[k], r))

TwinAnalyzeTimeline(k, timelineData) ==
  /\ twin.inst[k].call.pc = "none"
  /\ TwinStep(k, afterAnalyzeTimeline(Instance(k), timelineData),
               afterAnalyzeTimeline(twin.alone[k], timelineData))

TwinAnalyzeTimelineResumes(k) ==
  /\ twin.inst[k].call.pc = "awaiting"
  /\ twin.inst[k].runs[twin.inst[k].call.awaited].pc \in {"done", "rejected"}
  /\ TwinStep(k, afterResume(Instance(k), tz), afterResume(twin.alone[k], tz))

TwinNext ==
  \E k \in 1..2 :
    \/ \E r \in 1..Len(twin.inst[k].runs), outcome \in RouteOutcomes :
         TwinCalculateRouteSettles(k, r, outcome)
    \/ \E r \in 1..Len(twin.inst[k].runs) : TwinDelayElapses(k, r)
    \/ \E timelineData \in TwinExports : TwinAnalyzeTimeline(k, timelineData)
    \/ TwinAnalyzeTimelineResumes(k)

TwinSpec == TwinInit /\ [][TwinNext]_vars

\* ----------------------------------------------------- timeline file storage
\* lib/storage/timeline-storage.ts over lib/storage/indexeddb-storage.ts.
\* storage.idb is the set of ids with a record in the IndexedDB object
\* store, storage.meta the SavedTimelineFile list under the localStorage key
\* (the empty list when the key is not set), storage.ops the storage calls
\* made from the two places of the page that make them, each with its
\* position, and storage.nextId the next id of generateFileId.  History:
\* calls counts the calls, failed the storage writes that failed, overlapped
\* tells whether two calls have been in progress together, onlySaves whether
\* every call so far was a saveTimelineFile.

\* number of storage calls
MaxStorageCalls == 3
\* number of storage writes that fail
MaxFailures == 1

FileNames == {"Timeline.json", "Zeitachse.json"}

\* a SavedTimelineFile: ids are issued in the order of the upload dates
SavedTimelineFile(id, filename) == [id |-> id, filename |-> filename]

RECURSIVE insertFile(_, _)
\* insert f into a list sorted by upload date, newest first
insertFile(sorted, f) ==
  IF sorted = <<>> THEN <<f>>
  ELSE IF Head(sorted).id >= f.id
  THEN <<Head(sorted)>> \o insertFile(Tail(sorted), f)
  ELSE <<f>> \o sorted

RECURSIVE getSavedTimelineFiles(_)
\* getSavedTimelineFiles: the stored list, sorted by uploadDate, newest first
getSavedTimelineFiles(meta) ==
  IF meta = <<>> THEN <<>>
  ELSE insertFile(getSavedTimelineFiles(SubSeq(meta, 1, Len(meta) - 1)),
                  meta[Len(meta)])

\* existingFiles.findIndex(f => f.filename === file.name), 0 for -1
findIndex(files, filename) ==
  LET found == {i \in 1..Len(files) : files[i].filename = filename}
  IN  IF found = {} THEN 0 ELSE CHOOSE i \in found : \A j \in found : i <= j

\* files.filter(f => f.id !== fileId)
filterFiles(files, fileId) ==
  LET keep(f) == f.id # fileId
  IN  SelectSeq(files, keep)

IdleOp ==
  [op |-> "none", pc |-> "idle", id |-> 0, filename |-> "", old |-> 0,
   index |-> 0, existingFiles |-> <<>>]

Settled == {"idle", "returned", "thrown"}

\* the storage after a call is made at place p
called(s, p, op) ==
  [s EXCEPT !.ops[p] = op,
            !.calls = @ + 1,
            !.overlapped = @ \/ \E q \in DOMAIN s.ops : q # p /\ s.ops[q].pc \notin Settled,
            !.onlySaves = @ /\ op.op = "save"]

\* localStorage.setItem(STORAGE_KEY, JSON.stringify(files)) inside a try
\* block: the list is stored and the call goes on to `done`, or setItem
\* throws (the quota is exceeded) and the call goes on to `failedTo`
setItem(s, p, files, ok, done, failedTo) ==
  IF ok THEN [s EXCEPT !.meta = files, !.ops[p].pc = done]
  ELSE [s EXCEPT !.ops[p].pc = failedTo, !.failed = @ + 1]

\* saveTimelineFile from the end of `await saveTimelineDataToDB` on, up to
\* its next await or its return: the put succeeded or failed; the metadata
\* list is read; with an entry of the same name the old data is deleted
\* first (an await), otherwise the new entry is put in front and stored
saveAfterPut(s, p, put, stored) ==
  LET o == s.ops[p]
  IN  IF ~put THEN [s EXCEPT !.ops[p].pc = "cleanup", !.failed = @ + 1]
      ELSE LET s1 == [s EXCEPT !.idb = @ \cup {o.id}]
               existingFiles == getSavedTimelineFiles(s1.meta)
               existingIndex == findIndex(existingFiles, o.filename)
           IN  IF existingIndex # 0
               THEN [s1 EXCEPT !.ops[p].pc = "deleteOld",
                               !.ops[p].old = existingFiles[existingIndex].id,
                               !.ops[p].index = existingIndex,
                               !.ops[p].existingFiles = existingFiles]
               ELSE setItem(s1, p,
                            <<SavedTimelineFile(o.id, o.filename)>> \o existingFiles,
                            stored, "returned", "cleanup")

\* saveTimelineFile from the end of `await deleteTimelineDataFromDB(oldFileId)`
\* on: a failed delete is only logged; the entry found before the await is
\* replaced in the list read before the await, and that list is stored
saveAfterDeleteOld(s, p, deleted, stored) ==
  LET o == s.ops[p]
      s1 == IF deleted THEN [s EXCEPT !.idb = @ \ {o.old}]
            ELSE [s EXCEPT !.failed = @ + 1]
      files == [o.existingFiles EXCEPT ![o.index] = SavedTimelineFile(o.id, o.filename)]
  IN  setItem(s1, p, files, stored, "returned", "cleanup")

\* the catch block of saveTimelineFile: deleteTimelineDataFromDB(fileId),
\* whose failure is ignored, and the error is thrown on
saveAfterCleanup(s, p, deleted) ==
  IF deleted THEN [s EXCEPT !.idb = @ \ {s.ops[p].id}, !.ops[p].pc = "thrown"]
  ELSE [s EXCEPT !.ops[p].pc = "thrown", !.failed = @ + 1]

\* deleteTimelineFile from the end of `await deleteTimelineDataFromDB` on
deleteAfterDelete(s, p, deleted, stored) ==
  IF ~deleted THEN [s EXCEPT !.ops[p].pc = "thrown", !.failed = @ + 1]
  ELSE LET s1 == [s EXCEPT !.idb = @ \ {s.ops[p].id}]
           files == getSavedTimelineFiles(s1.meta)
       IN  setItem(s1, p, filterFiles(files, s.ops[p].id), stored,
                   "returned", "thrown")

\* clearAllTimelineFiles from the end of `await clearAllTimelineDataFromDB`
\* on; localStorage.removeItem leaves the empty list
clearAfterClear(s, p, cleared, removed) ==
  IF ~cleared THEN [s EXCEPT !.ops[p].pc = "thrown", !.failed = @ + 1]
  ELSE setItem([s EXCEPT !.idb = {}], p, <<>>, removed, "returned", "thrown")

\* an empty store, nothing in progress
StorageInit ==
  /\ config = AnalyzerConfig(2024, <<Office>>, None)
  /\ tz \in TzOffsets
  /\ distanceCache = EmptyCache
  /\ distancesCalculated = 1
  /\ runs = <<startedRun(config)>>
  /\ call = NoCall
  /\ ncalls = 0
  /\ issued = [n \in LocationNames(config) |-> 1]
  /\ lastWrite = EmptyCache
  /\ probe = NoProbe
  /\ twin = NoTwin
  /\ storage = [idb |-> {}, meta |-> <<>>, ops |-> <<IdleOp, IdleOp>>,
                nextId |-> 1, calls |-> 0, failed |-> 0,
                overlapped |-> FALSE, onlySaves |-> TRUE]
  /\ page = NoPage

\* a step of the storage: the failures stay within MaxFailures
StorageStep(s) ==
  /\ s.failed <= MaxFailures
  /\ storage' = s
  /\ UNCHANGED <<config, tz, distanceCache, distancesCalculated, runs, call,
                 ncalls, issued, lastWrite, probe, twin, page>>

\* saveTimelineFile(file, data) is called: a new id, and the put is awaited
SaveTimelineFile(p, filename) ==
  /\ storage.calls < MaxStorageCalls
  /\ storage.ops[p].pc \in Settled
  /\ StorageStep([called(storage, p,
                         [IdleOp EXCEPT !.op = "save", !.pc = "put",
                                        !.id = storage.nextId,
                                        !.filename = filename])
                   EXCEPT !.nextId = @ + 1])

SavePutSettles(p, put, stored) ==
  /\ storage.ops[p].pc = "put"
  /\ StorageStep(saveAfterPut(storage, p, put, stored))

SaveDeleteOldSettles(p, deleted, stored) ==
  /\ storage.ops[p].pc = "deleteOld"
  /\ StorageStep(saveAfterDeleteOld(storage, p, deleted, stored))

SaveCleanupSettles(p, deleted) ==
  /\ storage.ops[p].pc = "cleanup"
  /\ StorageStep(saveAfterCleanup(storage, p, deleted))

\* deleteTimelineFile(fileId) is called for a file of the list
DeleteTimelineFile(p, fileId) ==
  /\ storage.calls < MaxStorageCalls
  /\ storage.ops[p].pc \in Settled
  /\ \E i \in 1..Len(storage.meta) : storage.meta[i].id = fileId
  /\ StorageStep(called(storage, p,
                        [IdleOp EXCEPT !.op = "delete", !.pc = "delete",
                                       !.id = fileId]))

DeleteSettles(p, deleted, stored) ==
  /\ storage.ops[p].pc = "delete"
  /\ StorageStep(deleteAfterDelete(storage, p, deleted, stored))

\* clearAllTimelineFiles() is called
ClearAllTimelineFiles(p) ==
  /\ storage.calls < MaxStorageCalls
  /\ storage.ops[p].pc \in Settled
  /\ StorageStep(called(storage, p, [IdleOp EXCEPT !.op = "clear", !.pc = "clear"]))

ClearSettles(p, cleared, removed) ==
  /\ storage.ops[p].pc = "clear"
  /\ StorageStep(clearAfterClear(storage, p, cleared, removed))

StorageNext ==
  \E p \in 1..2 :
    \/ \E filename \in FileNames : SaveTimelineFile(p, filename)
    \/ \E put, stored \in BOOLEAN : SavePutSettles(p, put, stored)
    \/ \E deleted, stored \in BOOLEAN : SaveDeleteOldSettles(p, deleted, stored)
    \/ \E deleted \in BOOLEAN : SaveCleanupSettles(p, deleted)
    \/ \E fileId \in 1..MaxStorageCalls : DeleteTimelineFile(p, fileId)
    \/ \E deleted, stored \in BOOLEAN : DeleteSettles(p, deleted, stored)
    \/ ClearAllTimelineFiles(p)
    \/ \E cleared, removed \in BOOLEAN : ClearSettles(p, cleared, removed)

StorageSpec == StorageInit /\ [][StorageNext]_vars

\* ------------------------------------------------------------ analyzer page
\* LocationAnalyzerPage: the members file, isAnalyzing, results and error of
\* its state, and the one handleAnalyze invocation the button allows at a
\* time: page.pc is "idle", "reading" (at `await state.file.text()`) or
\* "analyzing" (at `await analyzer.analyzeTimeline(timelineData)`),
\* page.captured the file of the render the handler was created in,
\* page.timelineData the parsed export.  History: page.last tells how the
\* last invocation ended and with which Visit list.

\* A File of the file input: its MIME type and what reading it gives.
\* reads: text() resolves; parses: the text is JSON; value: the parsed
\* value, None for the JSON value null.
File(type, reads, parses, value) ==
  [type |-> type, reads |-> reads, parses |-> parses, value |-> value]

PageFiles ==
  {File("application/json", FALSE, FALSE, None),
   File("application/json", TRUE, FALSE, None),
   File("application/json", TRUE, TRUE, None),
   File("application/json", TRUE, TRUE, Some(TimelineData(None, None))),
   File("application/json", TRUE, TRUE,
        Some(TimelineData(Some(<<SegOfficeVisit>>), None))),
   File("text/plain", TRUE, FALSE, None)}

MsgInvalidFile == "Please select a valid JSON file"

MsgNoFile == "Please upload a timeline file first"

MsgFailed == "Failed to analyze timeline data. Please check the file format."

\* the ways the promise of analyzer.analyzeTimeline(timelineData) settles
\* for an analyzer of the page's config: with the Visit list of the export
\* for some content of the distance cache, or by rejecting
AnalysisOutcomes(timelineData, cfg, zone) ==
  LET awaiting == [NoCall EXCEPT !.pc = "awaiting",
                                 !.timelineData = Some(timelineData)]
  IN  {resumeAnalyzeTimeline(awaiting, "done", cache, cfg, zone).call :
         cache \in [LocationNames(cfg) -> CachedKm]}
      \cup {resumeAnalyzeTimeline(awaiting, "rejected", EmptyCache, cfg, zone).call}

catchAnalysisError_spinning(pg) ==
  [pg EXCEPT !.error = Some(MsgFailed), !.pc = "idle",
             !.last = [kind |-> "failure", visits |-> <<>>]]

\* the catch block of handleAnalyze
catchAnalysisError(pg) ==
  [pg EXCEPT !.error = Some(MsgFailed), !.isAnalyzing = FALSE, !.pc = "idle",
             !.last = [kind |-> "failure", visits |-> <<>>]]

\* handleAnalyze from the end of `await state.file.text()` to the next
\* await: JSON.parse, the logging, which reads members of the parsed value,
\* and the call of analyzeTimeline on a new analyzer
afterFileText(pg) ==
  LET file == Val(pg.captured)
  IN  IF ~file.reads \/ ~file.parses \/ ~IsSome(file.value)
      THEN catchAnalysisError(pg)
      ELSE [pg EXCEPT !.pc = "analyzing", !.timelineData = file.value]

\* handleAnalyze from the end of `await analyzer.analyzeTimeline(...)` on
afterAnalysis(pg, outcome) ==
  IF outcome.pc = "rejected" THEN catchAnalysisError(pg)
  ELSE [pg EXCEPT !.results = outcome.visits, !.isAnalyzing = FALSE,
                  !.pc = "idle",
                  !.last = [kind |-> "success", visits |-> outcome.visits]]

\* the page as it is mounted
PageInit ==
  /\ config = AnalyzerConfig(2024, <<Office>>, None)
  /\ tz \in TzOffsets
  /\ distanceCache = EmptyCache
  /\ distancesCalculated = 1
  /\ runs = <<startedRun(config)>>
  /\ call = NoCall
  /\ ncalls = 0
  /\ issued = [n \in LocationNames(config) |-> 1]
  /\ lastWrite = EmptyCache
  /\ probe = NoProbe
  /\ twin = NoTwin
  /\ storage = NoStorage
  /\ page = [pc |-> "idle", file |-> None, isAnalyzing |-> FALSE,
             results |-> <<>>, error |-> None, captured |-> None,
             timelineData |-> None,
             last |-> [kind |-> "none", visits |-> <<>>]]

PageStep(pg) ==
  /\ page' = pg
  /\ UNCHANGED <<config, tz, distanceCache, distancesCalculated, runs, call,
                 ncalls, issued, lastWrite, probe, twin, storage>>

\* handleFileUpload: the file input changes, to a file or to no file
HandleFileUpload(chosen) ==
  PageStep(IF IsSome(chosen) /\ Val(chosen).type = "application/json"
           THEN [page EXCEPT !.file = chosen, !.error = None]
           ELSE [page EXCEPT !.error = Some(MsgInvalidFile)])

\* handleAnalyze is invoked: the button is enabled only while isAnalyzing
\* is false; the handler tests the file itself
HandleAnalyze ==
  /\ page.pc = "idle"
  /\ ~page.isAnalyzing
  /\ PageStep(IF ~IsSome(page.file)
              THEN [page EXCEPT !.error = Some(MsgNoFile)]
              ELSE [page EXCEPT !.isAnalyzing = TRUE, !.error = None,
                                !.pc = "reading", !.captured = page.file])

\* the promise of state.file.text() settles
FileTextSettles ==
  /\ page.pc = "reading"
  /\ PageStep(afterFileText(page))

\* the promise of analyzer.analyzeTimeline(timelineData) settles
AnalysisSettles(outcome) ==
  /\ page.pc = "analyzing"
  /\ PageStep(afterAnalysis(page, outcome))

\* the analysis in progress settles in one of its ways
AnalysisEnds ==
  \E outcome \in AnalysisOutcomes(Val(page.timelineData), config, tz) :
    AnalysisSettles(outcome)

PageNext ==
  \/ \E chosen \in {None} \cup {Some(f) : f \in PageFiles} : HandleFileUpload(chosen)
  \/ HandleAnalyze
  \/ FileTextSettles
  \/ page.pc = "analyzing" /\ AnalysisEnds

\* Reading a File settles, and so does an analysis (C17): weak fairness of
\* the two continuations, each enabled until it is taken.  The step that
\* ends an analysis is enabled exactly while page.pc is "analyzing" and
\* always leaves that position: its weak fairness is written as
\* []<>(page.pc # "analyzing").
PageSpec ==
  PageInit /\ [][PageNext]_vars /\ WF_vars(FileTextSettles)
    /\ []<>(page.pc # "analyzing")

\* --------------------------------------------------------------- properties
Returned == call.pc = "returned"

\* the segment list the returned call worked on
InputSegments == normalize(Val(call.timelineData)).segments

\* the location a segment matches: that of its first coordinate, in
\* extraction order, which lies within some location's radius
SegmentMatch(segment) ==
  LET coordinates == extractCoordinatesFromSegment(segment)
      hits == {k \in 1..Len(coordinates) :
                 IsSome(findMatchingBusinessLocation(
                          coordinates[k].lat, coordinates[k].lon,
                          config.businessLocations))}
  IN  IF hits = {} THEN None
      ELSE LET k == CHOOSE k \in hits : \A j \in hits : k <= j
           IN  findMatchingBusinessLocation(coordinates[k].lat, coordinates[k].lon,
                                            config.businessLocations)

\* the segments of the input that match a location and fall on the day
MatchesOn(day) ==
  {i \in 1..Len(InputSegments) :
     /\ extractDateFromSegment(InputSegments[i]) = Some(day)
     /\ IsSome(SegmentMatch(InputSegments[i]))}

VisitDays == {call.visits[i].date : i \in 1..Len(call.visits)}

\* C1: the list returned by analyzeTimeline never holds two Visits with the
\* same date
C1_OneVisitPerDay ==
  Returned =>
    \A i, j \in 1..Len(call.visits) :
      i # j => call.visits[i].date # call.visits[j].date

\* C1 witness: two matching segments of one day, and a Visit for that day
C1_Witness ==
  /\ Returned
  /\ \E day \in VisitDays : Cardinality(MatchesOn(day)) >= 2

\* C2: the Visit of a day carries the location matched by the first segment
\* of the input, in list order, that matches a location on that day
C2_FirstSegmentWins ==
  Returned =>
    \A i \in 1..Len(call.visits) :
      LET day == call.visits[i].date
          first == CHOOSE f \in MatchesOn(day) : \A g \in MatchesOn(day) : f <= g
      IN  /\ MatchesOn(day) # {}
          /\ Some(call.visits[i].businessLocation) = SegmentMatch(InputSegments[first])

\* C2 witness: two segments of one day match different locations
C2_Witness ==
  /\ Returned
  /\ \E day \in VisitDays :
       \E f, g \in MatchesOn(day) :
         SegmentMatch(InputSegments[f]) # SegmentMatch(InputSegments[g])

LatestRunDone == runs[Len(runs)].pc = "done"

FailureWritten(name) ==
  name \in DOMAIN lastWrite /\ lastWrite[name] \in {"error", "throw"}

HomeDistance(name) ==
  LET i == CHOOSE i \in 1..Len(config.businessLocations) :
             config.businessLocations[i].name = name
  IN  Abs(config.businessLocations[i].lat - config.homeLocation.lat)

C4_FailureIsAbsorbed ==
  [][/\ call'.pc # "rejected"
     /\ \A r \in 1..Len(runs) :
          (runs[r].pc = "route" /\ runs'[r] # runs[r]) =>
            LET businessLocation == config.businessLocations[runs[r].i]
            IN  /\ runs'[r].pc # "rejected"
                /\ runs'[r] \in {[runs[r] EXCEPT !.pc = "delay"],
                                 nextIteration(runs[r], config)}
                /\ businessLocation.name \in DOMAIN distanceCache'
                /\ lastWrite'[businessLocation.name] \in {"error", "throw"} =>
                     distanceCache'[businessLocation.name]
                       = HomeDistance(businessLocation.name)]_vars

\* C4 witness: a call has returned Visits although every lookup of the run
\* it awaited failed, and the Visits carry the haversine distance
C4_Witness ==
  /\ Returned
  /\ Len(config.businessLocations) = 2
  /\ \A name \in LocationNames(config) : FailureWritten(name)
  /\ Len(call.visits) > 0
  /\ \A i \in 1..Len(call.visits) :
       call.visits[i].distanceKm = HomeDistance(call.visits[i].businessLocation.name)

NoSegmentList(timelineData) ==
  /\ ~(IsSome(timelineData.semanticSegments)
       /\ Len(Val(timelineData.semanticSegments)) > 0)
  /\ ~(IsSome(timelineData.timelineObjects)
       /\ Len(Val(timelineData.timelineObjects)) > 0)

\* C5: a call on an export without a non-empty semanticSegments or
\* timelineObjects list settles by returning the empty list
C5_UnsupportedIsEmpty ==
  (call.pc \in {"returned", "rejected"} /\ NoSegmentList(Val(call.timelineData))) =>
    (call.pc = "returned" /\ call.visits = <<>>)

\* C5 witness: the empty object has been analyzed
C5_Witness ==
  /\ Returned
  /\ call.timelineData = Some(TimelineData(None, None))
  /\ Len(config.businessLocations) > 0

\* C6: every returned Visit has a date in the calendar year config.targetYear
C6_VisitsInTargetYear ==
  Returned => \A i \in 1..Len(call.visits) : call.visits[i].date.y = config.targetYear

\* the locations within whose radius a point lies
Hits(lat, lon) ==
  {i \in 1..Len(config.businessLocations) :
     Abs(config.businessLocations[i].lat - lat)
       <= config.businessLocations[i].radius_km}

\* C7: every call of findMatchingBusinessLocation returned the location of
\* lowest index whose radius contains the point, and null if there is none
C7_FirstWithinRadius ==
  \A e \in 1..Len(call.matchLog) :
    LET entry == call.matchLog[e]
        hits == Hits(entry.lat, entry.lon)
    IN  IF hits = {} THEN entry.result = None
        ELSE entry.result =
               Some(config.businessLocations[CHOOSE i \in hits : \A j \in hits : i <= j])

\* C7 witness: a point on the radius of the first location and inside the
\* second was matched, and another point matched nothing
C7_Witness ==
  /\ \E e \in 1..Len(call.matchLog) :
       LET entry == call.matchLog[e]
       IN  /\ Cardinality(Hits(entry.lat, entry.lon)) = 2
           /\ Abs(config.businessLocations[1].lat - entry.lat)
                = config.businessLocations[1].radius_km
           /\ entry.result = Some(config.businessLocations[1])
  /\ \E e \in 1..Len(call.matchLog) : call.matchLog[e].result = None

InFlight == {r \in 1..Len(runs) : runs[r].pc = "route"}

\* C8: with one construction and one analyzeTimeline call, at most one
\* calculateRoute request is in flight at any time
C8_OneRequestAtATime == ncalls <= 1 => Cardinality(InFlight) <= 1

\* C9: when the one analyzeTimeline call of an instance returns, exactly one
\* request has been issued for every business location
C9_OneRequestPerLocation ==
  (Returned /\ ncalls = 1) => \A name \in LocationNames(config) : issued[name] = 1

\* C10: analyzeTimeline has gone through the segments only after the run it
\* started has completed and the cache holds a distance for every location
C10_MatchAfterRebuild ==
  Returned =>
    /\ runs[call.run].pc = "done"
    /\ LocationNames(config) \subseteq DOMAIN distanceCache

\* C10 witness: Visits were returned while the run started by the
\* constructor is still at work
C10_Witness ==
  /\ Returned
  /\ Len(call.visits) > 0
  /\ runs[1].pc # "done"
  /\ runs[call.run].pc = "done"

\* the step in which analyzeTimeline resumes after its await, runs the
\* matching pass and returns
MatchingStep == call.pc = "awaiting" /\ call'.pc = "returned"

\* run r stores a distance in the cache in this step
Writes(r) == runs[r].pc = "route" /\ runs'[r] # runs[r]

C12_CacheImmutable ==
  [][(/\ call.pc \in {"awaiting", "returned"}
      /\ runs[call.awaited].pc = "done"
      /\ call' = call
      /\ ncalls' = ncalls)
     => distanceCache' = distanceCache]_vars

\* C13: getCachedDistance called with the name of a business location
\* returns the entry of the name and leaves the cache as it is when there
\* is one, and otherwise returns the great-circle distance from home to
\* the location and leaves the cache with that distance under the name
C13_NeverMissing ==
  probe.op = "getCachedDistance" =>
    IF probe.name \in DOMAIN probe.before
    THEN /\ probe.value = probe.before[probe.name]
         /\ distanceCache = probe.before
    ELSE /\ probe.value = HomeDistance(probe.name)
         /\ distanceCache = CacheSet(probe.before, probe.name, HomeDistance(probe.name))

\* C13 witness: a name without entry got its great-circle distance, and a
\* name whose entry is 0 got that entry
C13_Witness ==
  /\ probe.op = "getCachedDistance"
  /\ \/ probe.name \notin DOMAIN probe.before /\ probe.value > 0
     \/ /\ probe.name \in DOMAIN probe.before
        /\ probe.before[probe.name] = 0
        /\ HomeDistance(probe.name) > 0

\* the calendar order of two days
DayBefore(a, b) ==
  \/ a.y < b.y
  \/ a.y = b.y /\ a.m < b.m
  \/ a.y = b.y /\ a.m = b.m /\ a.d < b.d

\* C14: in the list returned by analyzeTimeline every Visit has a strictly
\* earlier calendar day than the Visit after it
C14_SortedByDate ==
  Returned =>
    \A i \in 1..(Len(call.visits) - 1) :
      DayBefore(call.visits[i].date, call.visits[i + 1].date)

\* C14 witness: the first segment of the input gave the last of two Visits
C14_Witness ==
  /\ Returned
  /\ Len(call.visits) = 2
  /\ Len(InputSegments) = 2
  /\ extractDateFromSegment(InputSegments[1]) = Some(call.visits[2].date)

\* the configured rate, 0 when the config has none
ConfiguredRate == IF config.costPerKm = None THEN 0 ELSE Val(config.costPerKm)

\* C15: every Visit returned carries the distance read from the cache for
\* its location at the matching pass and, as taxDeductibleCosts, that
\* distance times the configured rate times 2 (NaN for the distance NaN)
C15_RoundTripCost ==
  [][MatchingStep =>
       \A i \in 1..Len(call'.visits) :
         LET visit == call'.visits[i]
         IN  /\ visit.distanceKm = distanceCache[visit.businessLocation.name]
             /\ IF visit.distanceKm = NaN THEN visit.taxDeductibleCosts = NaN
                ELSE visit.taxDeductibleCosts
                       = visit.distanceKm * ConfiguredRate * 2]_vars

\* C15 witness: Visits of two locations with different distances and the
\* costs of their round trips
C15_Witness ==
  /\ Returned
  /\ \E i, j \in 1..Len(call.visits) :
       /\ call.visits[i].businessLocation.name # call.visits[j].businessLocation.name
       /\ call.visits[i].distanceKm = 15
       /\ call.visits[i].taxDeductibleCosts = 900
       /\ call.visits[j].distanceKm = 13
       /\ call.visits[j].taxDeductibleCosts = 780

\* C16: every Visit returned has a distanceKm that is a number not below 0
\* and a taxDeductibleCosts that is a number not below 0
C16_NonNegative ==
  Returned =>
    \A i \in 1..Len(call.visits) :
      /\ call.visits[i].distanceKm # NaN
      /\ call.visits[i].distanceKm >= 0
      /\ call.visits[i].taxDeductibleCosts # NaN
      /\ call.visits[i].taxDeductibleCosts >= 0

\* the code calculateRoute is to answer the HTTP outcome with, None for no
\* failure
ExpectedCode(http) ==
  IF http.status = 403 THEN Some("API_ERROR")
  ELSE IF http.status = 404 THEN Some("NO_ROUTE")
  ELSE IF http.code = "ECONNABORTED" THEN Some("TIMEOUT")
  ELSE IF http.status # 200 THEN Some("UNKNOWN_ERROR")
  ELSE None

\* C18: calculateRoute resolves, for every HTTP outcome, with a result that
\* has a distance and a duration or with an error that has a message; the
\* error has the code API_ERROR for status 403, NO_ROUTE for 404, TIMEOUT
\* for ECONNABORTED and UNKNOWN_ERROR for any other exception, and is
\* 'No route found' for an empty route list
C18_NeverRejects ==
  probe.op = "calculateRoute" =>
    /\ probe.result.kind \in {"result", "error"}
    /\ probe.result.kind = "result" =>
         IsSome(probe.result.distance) /\ IsSome(probe.result.duration)
    /\ probe.result.kind = "error" => probe.result.message # ""
    /\ IsSome(ExpectedCode(probe.http)) =>
         probe.result.kind = "error" /\ probe.result.code = ExpectedCode(probe.http)
    /\ probe.http.routes = Some(<<>>) =>
         probe.result.kind = "error" /\ probe.result.message = "No route found"
    /\ (probe.result.kind = "error" /\ probe.http.status = 200
        /\ probe.http.routes # Some(<<>>)) =>
         probe.result.code = Some("UNKNOWN_ERROR")

\* C17: an analyzeTimeline call that has been made eventually returns its
\* Visit list or rejects
C17_RunsToCompletion ==
  (call.pc = "awaiting") ~> (call.pc \in {"returned", "rejected"})

\* C17 witness: a call has returned after its run went through two
\* locations, one lookup resolving and one failing
C17_Witness ==
  /\ Returned
  /\ ncalls = 1
  /\ runs[call.awaited] = [pc |-> "done", i |-> 2]
  /\ {lastWrite[name] : name \in DOMAIN lastWrite} = {"result", "error"}
  /\ Len(call.visits) = 1

\* C19: of two instances whose steps interleave, each returns the Visit
\* list (or rejects) as it does when its own steps, with the same routing
\* outcomes, are all that happens
C19_NoInterference ==
  \A k \in 1..2 :
    twin.inst[k].call.pc \in {"returned", "rejected"} =>
      twin.inst[k].call = twin.alone[k].call

\* C19 witness: both instances have returned a Visit at Office, with
\* different distances, and the constructor's run of one of them is still
\* at work
C19_Witness ==
  /\ \A k \in 1..2 :
       /\ twin.inst[k].call.pc = "returned"
       /\ Len(twin.inst[k].call.visits) > 0
       /\ twin.inst[k].call.visits[1].businessLocation.name = "Office"
  /\ twin.inst[1].call.visits[1].distanceKm # twin.inst[2].call.visits[1].distanceKm
  /\ \E k \in 1..2 : twin.inst[k].runs[1].pc # "done"

\* C20: a call with an export that has no segment list returns the empty
\* list, and the preCalculateDistances it would start has issued no routing
\* request
C20_NormalizesFirst ==
  (call.pc # "none" /\ NoSegmentList(Val(call.timelineData))) =>
    /\ runs[call.run].i = 0
    /\ Returned => call.visits = <<>>

\* the day derived for the i-th segment of the input
SegmentDate(i) == extractDateFromSegment(InputSegments[i])

\* the i-th segment has a coordinate matching a business location and a
\* derived day that lies in the calendar year config.targetYear
Qualifies(i) ==
  /\ IsSome(SegmentMatch(InputSegments[i]))
  /\ IsSome(SegmentDate(i))
  /\ Val(SegmentDate(i)).y = config.targetYear

\* the i-th segment qualifies and no earlier segment has produced a Visit
\* for its day, that is, no earlier segment of that day qualifies
Produces(i) ==
  /\ Qualifies(i)
  /\ \A j \in 1..(i - 1) : ~(Qualifies(j) /\ SegmentDate(j) = SegmentDate(i))

\* C21: the call does not reject once its rebuild is done; the returned
\* list has exactly one Visit for every segment that matches a business
\* location, has a day in the target year and is the first such segment of
\* its day, with that day and that location, and no other Visit; and each
\* Visit carries the cache entry of its location
C21_VisitIff ==
  [][(call.pc = "awaiting" /\ call'.pc # "awaiting") =>
       /\ call'.pc = "returned"
       /\ LET produced == {i \in 1..Len(InputSegments) : Produces(i)}
          IN  /\ Len(call'.visits) = Cardinality(produced)
              /\ {<<call'.visits[v].date, call'.visits[v].businessLocation>> :
                    v \in 1..Len(call'.visits)}
                 = {<<Val(SegmentDate(i)), Val(SegmentMatch(InputSegments[i]))>> :
                      i \in produced}
       /\ \A v \in 1..Len(call'.visits) :
            call'.visits[v].distanceKm
              = distanceCache[call'.visits[v].businessLocation.name]]_vars

\* the coordinate strings of a segment in the order visit place, activity
\* start, activity end, path points
Slots(segment) ==
  <<segment.visit, segment.activityStart, segment.activityEnd>> \o segment.timelinePath

\* the slot holds a string that parses
Parses(slot) == IsSome(slot) /\ IsSome(parseCoordinateString(Val(slot)))

\* the candidate coordinates of a segment: its parsed slots, in slot order
Candidates(segment) ==
  LET kept == SelectSeq(Slots(segment), Parses)
  IN  [k \in 1..Len(kept) |-> Val(parseCoordinateString(Val(kept[k])))]

\* the candidates that lie within the radius of some business location
HitsOf(segment) ==
  {k \in 1..Len(Candidates(segment)) :
     Hits(Candidates(segment)[k].lat, Candidates(segment)[k].lon) # {}}

\* C22: one pass over a segment tries its candidate coordinates in
\* extraction order up to and including the first that matches a business
\* location and no further; only that last try has a match; the segment
\* gives at most one Visit, and the Visit has the location of that match
C22_FirstCoordinateWins ==
  probe.op = "processSegment" =>
    LET candidates == Candidates(probe.segment)
        hits == HitsOf(probe.segment)
        tried == IF hits = {} THEN Len(candidates)
                 ELSE CHOOSE k \in hits : \A j \in hits : k <= j
        log == probe.after.matchLog
    IN  /\ Len(log) = tried
        /\ \A k \in 1..tried :
             /\ log[k].lat = candidates[k].lat
             /\ log[k].lon = candidates[k].lon
             /\ IsSome(log[k].result) <=> k \in hits
        /\ Len(probe.after.visits) <= 1
        /\ hits = {} => probe.after.visits = <<>>
        /\ \A v \in 1..Len(probe.after.visits) :
             Some(probe.after.visits[v].businessLocation) = log[tried].result

\* C22 witness: the first coordinate of a segment matched one location, a
\* later coordinate of the segment lies in another location's radius only,
\* and the one Visit is at the first
C22_Witness ==
  /\ probe.op = "processSegment"
  /\ Len(probe.after.visits) = 1
  /\ Len(probe.after.matchLog) < Len(Candidates(probe.segment))
  /\ \E k \in HitsOf(probe.segment) :
       LET c == Candidates(probe.segment)[k]
       IN  /\ k > Len(probe.after.matchLog)
           /\ findMatchingBusinessLocation(c.lat, c.lon, config.businessLocations)
                # Some(probe.after.visits[1].businessLocation)

\* the optional timestamp string is present and parses to a valid date
ValidTime(t) == IsSome(t) /\ Val(t).valid

\* C23: extractDateFromSegment gives the day of the start timestamp when the
\* segment has one that parses, else the day of the end timestamp when that
\* parses (also when an unparseable start timestamp is present), and null
\* only when neither timestamp parses
C23_DateFromEitherTimestamp ==
  probe.op = "extractDateFromSegment" =>
    LET segment == probe.segment
    IN  IF ValidTime(segment.startTime)
        THEN probe.date = Some(toISODate(Val(segment.startTime)))
        ELSE IF ValidTime(segment.endTime)
        THEN probe.date = Some(toISODate(Val(segment.endTime)))
        ELSE probe.date = None

\* C24: parseCoordinateString returns, for a string with a latE7 and a lngE7
\* field, the two integers divided by 10^7, whether or not a decimal pair
\* is there too; for any other string with a decimal-degree pair, that
\* pair; and null for every other value, a string with one E7 field only
\* and a value that is not a string included
C24_IntegerEncodingFirst ==
  probe.op = "parseCoordinateString" =>
    LET coordStr == probe.coordStr
    IN  IF coordStr.string /\ coordStr.latE7 # None /\ coordStr.lngE7 # None
        THEN /\ probe.parsed # None
             /\ Val(probe.parsed).lat * E7 = Val(coordStr.latE7)
             /\ Val(probe.parsed).lon * E7 = Val(coordStr.lngE7)
        ELSE IF coordStr.string /\ coordStr.deg # None
        THEN probe.parsed = Some(Val(coordStr.deg))
        ELSE probe.parsed = None

\* C24 witness: a string with both E7 fields and a decimal pair that names
\* another point was decoded from the E7 fields
C24_Witness ==
  /\ probe.op = "parseCoordinateString"
  /\ probe.coordStr.latE7 # None
  /\ probe.coordStr.lngE7 # None
  /\ probe.coordStr.deg # None
  /\ probe.parsed # probe.coordStr.deg
  /\ Val(probe.parsed).lat < 0

\* C25: no step changes the config of the instance, and the steps of an
\* analyzeTimeline call, from the call to its return, leave the export it
\* was given as it was, segment lists and their order included
C25_InputsUnchanged ==
  [][/\ config' = config
     /\ call.pc = "awaiting" => call'.timelineData = call.timelineData]_vars

\* C25 witness: a call has returned two Visits in the reverse order of the
\* two segments of its semanticSegments list, which is still in the order
\* given, and the cache has been rebuilt
C25_Witness ==
  /\ Returned
  /\ IsSome(Val(call.timelineData).semanticSegments)
  /\ Len(Val(Val(call.timelineData).semanticSegments)) = 2
  /\ Len(call.visits) = 2
  /\ SegmentDate(1) = Some(call.visits[2].date)
  /\ SegmentDate(2) = Some(call.visits[1].date)
  /\ DOMAIN distanceCache = LocationNames(config)
  /\ distancesCalculated = call.run

\* the dates and matched locations of a Visit list, in list order
VisitKeys(visits) ==
  [v \in 1..Len(visits) |->
     [date |-> visits[v].date, businessLocation |-> visits[v].businessLocation]]

\* the Visit list of the export for the config and the zone when no routing
\* result is there at all: the pass over an empty cache
WithoutRouting ==
  sortVisits(processSegments(EmptyCache, InputSegments, config, tz).visits)

\* C26: however the routing lookups of the runs ended and interleaved, a
\* call settles by returning, and the dates and matched locations of its
\* Visits, in order, are those the export, the business list, the target
\* year and the zone give without any routing result; so two runs on the
\* same input differ in distanceKm and taxDeductibleCosts at most
C26_RoutingIndependent ==
  call.pc \in {"returned", "rejected"} =>
    /\ Returned
    /\ VisitKeys(call.visits) = VisitKeys(WithoutRouting)

\* C26 witness: a call returned two Visits, one with the distance of a
\* route, one with the distance stored after a failed lookup, while the
\* constructor's run still waits for a routing answer
C26_Witness ==
  /\ Returned
  /\ Len(call.visits) = 2
  /\ call.visits[1].businessLocation.name # call.visits[2].businessLocation.name
  /\ lastWrite[call.visits[1].businessLocation.name] = "result"
  /\ lastWrite[call.visits[2].businessLocation.name] \in {"error", "throw"}
  /\ call.visits[1].distanceKm # WithoutRouting[1].distanceKm
  /\ runs[1].pc = "route"

\* C27: in the list a call returns, two Visits at business locations of the
\* same name have the same distanceKm
C27_OneDistancePerName ==
  Returned =>
    \A i, j \in 1..Len(call.visits) :
      call.visits[i].businessLocation.name = call.visits[j].businessLocation.name
        => call.visits[i].distanceKm = call.visits[j].distanceKm

\* C27 witness: two Visits at one location in one result, returned while
\* the run the constructor started had stored a distance for that location
\* and was not yet done, and the entry of the location has changed since
C27_Witness ==
  /\ Returned
  /\ Len(call.visits) = 2
  /\ call.visits[1].businessLocation.name = call.visits[2].businessLocation.name
  /\ runs[1].pc = "delay"
  /\ distanceCache[call.visits[1].businessLocation.name] # call.visits[1].distanceKm

\* no storage call is in progress
Quiescent == \A p \in DOMAIN storage.ops : storage.ops[p].pc \in Settled

MetaIds == {storage.meta[i].id : i \in 1..Len(storage.meta)}

\* C28: after storage calls made one after another, of which one storage
\* write may have failed, every file id of the localStorage metadata list
\* has its data in IndexedDB
C28_NoDanglingMetadata ==
  (Quiescent /\ ~storage.overlapped) => MetaIds \subseteq storage.idb

\* C29: when calls of saveTimelineFile, interleaved at their awaits, have
\* all returned and no storage operation failed, the ids with data in
\* IndexedDB are the ids of the metadata list, and no two entries of the
\* list have the same filename
C29_InterleavedSavesAgree ==
  (Quiescent /\ storage.onlySaves /\ storage.failed = 0) =>
    /\ storage.idb = MetaIds
    /\ \A i, j \in 1..Len(storage.meta) :
         storage.meta[i].filename = storage.meta[j].filename => i = j

\* the step in which an invocation of handleAnalyze puts isAnalyzing back
AnalyzingEnds == page.isAnalyzing /\ ~page'.isAnalyzing

\* the invocation ended with a failure: the message is set, the results
\* are the previous ones
EndsInFailure ==
  /\ page'.last.kind = "failure"
  /\ page'.error = Some(MsgFailed)
  /\ page'.results = page.results

\* C30 as stated: isAnalyzing goes back to false only at the end of an
\* invocation, on success with the results replaced by the new Visit list
\* and error null, on failure with the message set and the results kept;
\* it is false whenever no invocation is in progress; and an invocation
\* that has set it to true eventually sets it back to false
C30_AnalyzingEndsErrorNull ==
  /\ [][AnalyzingEnds =>
          \/ /\ page'.last.kind = "success"
             /\ page'.results = page'.last.visits
             /\ page'.error = None
          \/ EndsInFailure]_vars
  /\ [](page.pc = "idle" => ~page.isAnalyzing)
  /\ (page.isAnalyzing ~> ~page.isAnalyzing)

\* C30 amended: as stated, but on success error is left as it is; it is
\* null unless the file input has set its own message during the analysis
C30_AnalyzingEnds ==
  /\ [][AnalyzingEnds =>
          \/ /\ page'.last.kind = "success"
             /\ page'.results = page'.last.visits
             /\ page'.error = page.error
             /\ page'.error \in {None, Some(MsgInvalidFile)}
          \/ EndsInFailure]_vars
  /\ [](page.pc = "idle" => ~page.isAnalyzing)
  /\ (page.isAnalyzing ~> ~page.isAnalyzing)

\* C30 witness: an analysis has ended with a Visit, after an earlier one
\* had failed, and the message of the file input is showing
C30_Witness ==
  /\ page.pc = "idle"
  /\ page.last.kind = "success"
  /\ Len(page.results) = 1
  /\ page.results = page.last.visits
  /\ page.error = Some(MsgInvalidFile)
  /\ IsSome(page.captured)
  /\ page.file # page.captured

====
